---- MODULE Spec2Model ----
(***************************************************************************)
(* Model of expandRaster.py: add_rows_or_cols, read_ras, write_ras,        *)
(* update_extent and get_user_input.                                       *)
(*                                                                         *)
(* A numpy array is a record [data, dtype]: data is the sequence of rows   *)
(* (each a sequence of cells), dtype the storage type.  The raster         *)
(* metadata is a record [transform, width, height, dtype]; transform is    *)
(* the six coefficients <<a, b, c, d, e, f>> of the rasterio Affine        *)
(* (index k of the Python object is index k+1 here).  Coordinates and      *)
(* cell values are integers.                                               *)
(***************************************************************************)
EXTENDS Integers, Sequences, FiniteSets, TLC

VARIABLES pc, dimensions, ary, meta, shp, out, strictCast, hist, prev, loaded,
          answered

vars == <<pc, dimensions, ary, meta, shp, out, strictCast, hist, prev, loaded,
          answered>>

(***************************************************************************)
(* Bounds of the model.                                                    *)
(***************************************************************************)
MaxDim == 2
MaxCount == 2
MaxCalls == 2

CellSizes == {10, 30}
Origins == {<<0, 40>>}
GridBases == {0, 200}
FillVals == {-128, 200}

(***************************************************************************)
(* numpy storage types.                                                    *)
(***************************************************************************)
IntBits(dt) == CASE dt = "int8" -> 8
                 [] dt = "uint8" -> 8
                 [] dt = "int16" -> 16
                 [] dt = "int32" -> 32
                 [] OTHER -> 0

IsSigned(dt) == dt \in {"int8", "int16", "int32"}

\* The values of the model stay far inside the int32 range, so int32 and
\* float64 hold every one of them unchanged.
IsNarrow(dt) == dt \in {"int8", "uint8", "int16"}

InRange(dt, v) ==
    IF ~IsNarrow(dt) THEN TRUE
    ELSE IF IsSigned(dt)
         THEN v >= -(2 ^ (IntBits(dt) - 1)) /\ v <= 2 ^ (IntBits(dt) - 1) - 1
         ELSE v >= 0 /\ v <= 2 ^ IntBits(dt) - 1

\* Two's-complement wrap of an integer into the storage type.
Wrap(dt, v) ==
    IF ~IsNarrow(dt) THEN v
    ELSE IF IsSigned(dt)
         THEN ((v + 2 ^ (IntBits(dt) - 1)) % (2 ^ IntBits(dt))) - 2 ^ (IntBits(dt) - 1)
         ELSE v % (2 ^ IntBits(dt))

\* ary.astype(target)
Astype(a, target) ==
    [data |-> [i \in 1..Len(a.data) |->
                 [j \in 1..Len(a.data[i]) |-> Wrap(target, a.data[i][j])]],
     dtype |-> target]

\* ary.shape[0], ary.shape[1]
Shape0(a) == Len(a.data)

Shape1(a) == IF Len(a.data) = 0 THEN 0 ELSE Len(a.data[1])

(***************************************************************************)
(* np.insert(arr, obj, values, axis).  The values are first converted to   *)
(* arr.dtype: a Python integer outside the range of an integer dtype       *)
(* wraps, or raises OverflowError in a numpy that rejects it (strict).     *)
(* An index beyond the axis length raises IndexError.  The result is       *)
(* [ary, raised], raised = "" when the call returns.                       *)
(***************************************************************************)
NpInsert(a, obj, values, axis, strict) ==
    LET flat == IF axis = 0 THEN values ELSE [i \in 1..Len(values) |-> values[i][1]]
        bad == \E i \in 1..Len(flat) : ~InRange(a.dtype, flat[i])
        cast == [i \in 1..Len(flat) |-> Wrap(a.dtype, flat[i])]
        n == IF axis = 0 THEN Shape0(a) ELSE Shape1(a)
    IN  IF bad /\ strict THEN [ary |-> a, raised |-> "OverflowError"]
        ELSE IF obj < 0 \/ obj > n THEN [ary |-> a, raised |-> "IndexError"]
        ELSE IF axis = 0
        THEN [ary |-> [a EXCEPT !.data =
                         SubSeq(a.data, 1, obj) \o <<cast>> \o SubSeq(a.data, obj + 1, n)],
              raised |-> ""]
        ELSE [ary |-> [a EXCEPT !.data =
                         [i \in 1..Len(a.data) |->
                            SubSeq(a.data[i], 1, obj) \o <<cast[i]>>
                              \o SubSeq(a.data[i], obj + 1, n)]],
              raised |-> ""]

\* rasterio.transform.from_bounds(west, south, east, north, width, height):
\* Affine.translation(west, north) * Affine.scale((east-west)/width, (south-north)/height).
\* A zero width or height raises ZeroDivisionError; add_rows_or_cols tests
\* for it before the call.
trans_fb(west, south, east, north, width, height) ==
    <<(east - west) \div width, 0, west, 0, (south - north) \div height, north>>

(***************************************************************************)
(* add_rows_or_cols                                                        *)
(***************************************************************************)
\* index at which a line is inserted
RowIndex(a, isEnd) == IF isEnd THEN Shape0(a) ELSE 0

ColIndexWrongAxis(a, isEnd) == IF isEnd THEN Shape0(a) ELSE 0

ColIndex(a, isEnd) == IF isEnd THEN Shape1(a) ELSE 0

InsertOneWrongSign(st, isRows, isEnd, fillVal, cellSize, strict) ==
    IF isRows
    THEN LET vals == [i \in 1..Shape1(st.ary) |-> fillVal]
             r == NpInsert(st.ary, RowIndex(st.ary, isEnd), vals, 0, strict)
         IN  IF r.raised # "" THEN [st EXCEPT !.raised = r.raised]
             ELSE IF isEnd
                  THEN [st EXCEPT !.ary = r.ary, !.ymin = st.ymin - cellSize]
                  ELSE [st EXCEPT !.ary = r.ary, !.ymax = st.ymax - cellSize]
    ELSE LET vals == [i \in 1..Shape0(st.ary) |-> <<fillVal>>]
             r == NpInsert(st.ary, ColIndex(st.ary, isEnd), vals, 1, strict)
         IN  IF r.raised # "" THEN [st EXCEPT !.raised = r.raised]
             ELSE IF isEnd
                  THEN [st EXCEPT !.ary = r.ary, !.xmax = st.xmax + cellSize]
                  ELSE [st EXCEPT !.ary = r.ary, !.xmin = st.xmin - cellSize]

\* one pass of the loop body; st = [ary, xmin, ymin, xmax, ymax, raised]
InsertOne(st, isRows, isEnd, fillVal, cellSize, strict) ==
    IF isRows
    THEN LET vals == [i \in 1..Shape1(st.ary) |-> fillVal]
             r == NpInsert(st.ary, RowIndex(st.ary, isEnd), vals, 0, strict)
         IN  IF r.raised # "" THEN [st EXCEPT !.raised = r.raised]
             ELSE IF isEnd
                  THEN [st EXCEPT !.ary = r.ary, !.ymin = st.ymin - cellSize]
                  ELSE [st EXCEPT !.ary = r.ary, !.ymax = st.ymax + cellSize]
    ELSE LET vals == [i \in 1..Shape0(st.ary) |-> <<fillVal>>]
             r == NpInsert(st.ary, ColIndex(st.ary, isEnd), vals, 1, strict)
         IN  IF r.raised # "" THEN [st EXCEPT !.raised = r.raised]
             ELSE IF isEnd
                  THEN [st EXCEPT !.ary = r.ary, !.xmax = st.xmax + cellSize]
                  ELSE [st EXCEPT !.ary = r.ary, !.xmin = st.xmin - cellSize]

\* number of passes of "for n in range(numToAdd)"
RangeLenOffByOne(numToAdd) == IF numToAdd + 1 > 0 THEN numToAdd + 1 ELSE 0

RangeLen(numToAdd) == IF numToAdd > 0 THEN numToAdd ELSE 0

RECURSIVE InsertLoop(_, _, _, _, _, _, _)
InsertLoop(st, n, isRows, isEnd, fillVal, cellSize, strict) ==
    IF n = 0 \/ st.raised # "" THEN st
    ELSE InsertLoop(InsertOne(st, isRows, isEnd, fillVal, cellSize, strict),
                    n - 1, isRows, isEnd, fillVal, cellSize, strict)

\* aff = rio.Affine(cellSize, aff[1], aff[2], aff[3], -1*cellSize, aff[5])
ReplaceCellSizeForgotten(aff, cellSize) == aff

ReplaceCellSize(aff, cellSize) ==
    <<cellSize, aff[2], aff[3], aff[4], -1 * cellSize, aff[6]>>

\* meta.update({"transform": aff, "height": ..., "width": ...})
MetaUpdateSwapped(m, aff, a) ==
    [m EXCEPT !.transform = aff, !.height = Shape1(a), !.width = Shape0(a)]

MetaUpdate(m, aff, a) ==
    [m EXCEPT !.transform = aff, !.height = Shape0(a), !.width = Shape1(a)]

\* xmin, ymax from the transform; xmax, ymin from the cell size and the
\* pixel counts
Bounds(m) ==
    [xmin |-> m.transform[3],
     ymax |-> m.transform[6],
     xmax |-> m.transform[3] + (m.transform[1] * m.width),
     ymin |-> m.transform[6] - (m.transform[1] * m.height)]

\* The result is [ary, meta, raised]; when raised # "" the call did not
\* return and ary, meta are the caller's objects, untouched.
add_rows_or_cols(a, isRows, numToAdd, isEnd, fillVal, m, strict) ==
    LET cellSize == m.transform[1]
        b == Bounds(m)
        st0 == [ary |-> a, xmin |-> b.xmin, ymin |-> b.ymin, xmax |-> b.xmax,
                ymax |-> b.ymax, raised |-> ""]
        st == InsertLoop(st0, RangeLen(numToAdd), isRows, isEnd, fillVal, cellSize, strict)
        aff == trans_fb(st.xmin, st.ymin, st.xmax, st.ymax,
                        st.xmax - st.xmin, st.ymax - st.ymin)
    IN  IF st.raised # "" THEN [ary |-> a, meta |-> m, raised |-> st.raised]
        ELSE IF st.xmax - st.xmin = 0 \/ st.ymax - st.ymin = 0
        THEN [ary |-> a, meta |-> m, raised |-> "ZeroDivisionError"]
        ELSE [ary |-> st.ary,
              meta |-> MetaUpdate(m, ReplaceCellSize(aff, cellSize), st.ary),
              raised |-> ""]

(***************************************************************************)
(* read_ras: the raster file is input from outside the program.  The grid  *)
(* is band 1 as a 2-D array; the metadata come from the same dataset, so   *)
(* width and height are those of the grid.  The rasters drawn are north-up *)
(* with square cells: transform = (cellSize, 0, xmin, 0, -cellSize, ymax). *)
(* The declared dtype (a rasterio name) and the dtype of the array read    *)
(* are both given by the driver and are drawn independently.               *)
(***************************************************************************)
LoadedDtypes == {<<"int8", "int8">>, <<"uint8", "uint8">>, <<"float64", "int16">>,
                 <<"uint8", "int8">>, <<"int16", "int32">>, <<"int16", "uint8">>}

Grid(h, w, base) == [i \in 1..h |-> [j \in 1..w |-> base + 10 * i + j]]

Rasters ==
    { [ary |-> [data |-> Grid(h, w, base), dtype |-> dts[1]],
       meta |-> [transform |-> <<cs, 0, o[1], 0, -cs, o[2]>>,
                 width |-> w, height |-> h, dtype |-> dts[2]]] :
        h \in 1..MaxDim, w \in 1..MaxDim, base \in GridBases,
        dts \in LoadedDtypes, cs \in CellSizes, o \in Origins }

read_ras ==
    { r \in Rasters :
        \A i \in 1..Len(r.ary.data) : \A j \in 1..Len(r.ary.data[i]) :
            InRange(r.ary.dtype, r.ary.data[i][j]) }

NoAry == [data |-> <<>>, dtype |-> "none"]

NoMeta == [transform |-> <<0, 0, 0, 0, 0, 0>>, width |-> 0, height |-> 0, dtype |-> "none"]

NoPlan == [k \in {} |-> [toAdd |-> 0, end |-> FALSE, fill |-> 0]]

Request(isRows, numToAdd, isEnd, fillVal) ==
    [isRows |-> isRows, numToAdd |-> numToAdd, isEnd |-> isEnd, fillVal |-> fillVal]

(***************************************************************************)
(* Repeated calls of add_rows_or_cols, each fed the grid and metadata      *)
(* returned by the previous one.  hist is the sequence of requests made,   *)
(* prev the grid and metadata passed to the last call, loaded the grid     *)
(* and metadata as read.                                                   *)
(***************************************************************************)
InitExpand ==
    /\ pc = "call"
    /\ dimensions = NoPlan
    /\ \E r \in read_ras :
         /\ ary = r.ary
         /\ meta = r.meta
         /\ prev = r
         /\ loaded = r
         /\ shp = <<Shape0(r.ary), Shape1(r.ary)>>
    /\ out = <<>>
    /\ strictCast \in BOOLEAN
    /\ hist = <<>>
    /\ answered = {}

Call(isRows, numToAdd, isEnd, fillVal) ==
    /\ pc = "call"
    /\ Len(hist) < MaxCalls
    /\ LET r == add_rows_or_cols(ary, isRows, numToAdd, isEnd, fillVal, meta, strictCast)
       IN  /\ ary' = r.ary
           /\ meta' = r.meta
           /\ pc' = IF r.raised # "" THEN r.raised ELSE "call"
    /\ prev' = [ary |-> ary, meta |-> meta]
    /\ hist' = Append(hist, Request(isRows, numToAdd, isEnd, fillVal))
    /\ UNCHANGED <<answered, dimensions, shp, out, strictCast, loaded>>

ExpandRows == \E n \in 0..MaxCount, e \in BOOLEAN, f \in FillVals : Call(TRUE, n, e, f)

ExpandColumns == \E n \in 0..MaxCount, e \in BOOLEAN, f \in FillVals : Call(FALSE, n, e, f)

NextExpand == ExpandRows \/ ExpandColumns

SpecExpand == InitExpand /\ [][NextExpand]_vars

(***************************************************************************)
(* Properties of add_rows_or_cols, checked under SpecExpand.               *)
(***************************************************************************)
Last == hist[Len(hist)]

Returned == pc = "call" /\ Len(hist) > 0

Repeat(n, x) == [i \in 1..n |-> x]

\* C1: after any sequence of add_rows_or_cols calls the returned metadata
\* has width = number of grid columns and height = number of grid rows.
C1_MetaMatchesGrid ==
    Returned => /\ meta.width = Shape1(ary)
                /\ meta.height = Shape0(ary)

C1_Witness ==
    /\ pc = "call"
    /\ Len(hist) = 2
    /\ hist[1].isRows /\ hist[1].numToAdd > 0
    /\ ~hist[2].isRows /\ hist[2].numToAdd > 0
    /\ meta.height = loaded.meta.height + hist[1].numToAdd
    /\ meta.width = loaded.meta.width + hist[2].numToAdd
    /\ meta.height # meta.width

\* C2: after any sequence of calls the cell-size coefficients of the
\* transform are those of the metadata as loaded (cellSize in X, -cellSize
\* in Y); apart from the origin, width and height the metadata are the
\* loaded ones.
C2_CellSizePreserved ==
    Returned => /\ meta.transform[1] = loaded.meta.transform[1]
                /\ meta.transform[5] = loaded.meta.transform[5]
                /\ meta.transform[5] = -1 * loaded.meta.transform[1]
                /\ meta.transform[2] = loaded.meta.transform[2]
                /\ meta.transform[4] = loaded.meta.transform[4]
                /\ meta.dtype = loaded.meta.dtype

C2_Witness ==
    /\ pc = "call"
    /\ Len(hist) = 2
    /\ \A k \in 1..2 : hist[k].numToAdd > 0 /\ ~hist[k].isEnd
    /\ hist[1].isRows # hist[2].isRows
    /\ meta.transform[3] # loaded.meta.transform[3]
    /\ meta.transform[6] # loaded.meta.transform[6]
    /\ meta.transform[1] = loaded.meta.transform[1]
    /\ meta.transform[1] # 1

\* C3: a call with count >= 0 adds exactly count to the pixel count of the
\* chosen axis, leaves the other axis and the cell size alone, and moves
\* only the bound of the chosen edge, outward, by count * cellSize.
C3_ExpandMovesOneBound ==
    (Returned /\ Last.numToAdd >= 0) =>
        LET n == Last.numToAdd
            cs == prev.meta.transform[1]
            b0 == Bounds(prev.meta)
            b1 == Bounds(meta)
            dRows == IF Last.isRows THEN n ELSE 0
            dCols == IF Last.isRows THEN 0 ELSE n
        IN  /\ Shape0(ary) = Shape0(prev.ary) + dRows
            /\ Shape1(ary) = Shape1(prev.ary) + dCols
            /\ meta.height = prev.meta.height + dRows
            /\ meta.width = prev.meta.width + dCols
            /\ meta.transform[1] = cs
            /\ b1.ymin = b0.ymin - (IF Last.isRows /\ Last.isEnd THEN n * cs ELSE 0)
            /\ b1.ymax = b0.ymax + (IF Last.isRows /\ ~Last.isEnd THEN n * cs ELSE 0)
            /\ b1.xmax = b0.xmax + (IF ~Last.isRows /\ Last.isEnd THEN n * cs ELSE 0)
            /\ b1.xmin = b0.xmin - (IF ~Last.isRows /\ ~Last.isEnd THEN n * cs ELSE 0)

C3_Witness ==
    /\ pc = "call"
    /\ Len(hist) = 2
    /\ Last.isRows /\ ~Last.isEnd /\ Last.numToAdd = 2
    /\ Bounds(meta).ymax = Bounds(prev.meta).ymax + 2 * prev.meta.transform[1]
    /\ Bounds(meta).ymin = Bounds(prev.meta).ymin
    /\ Bounds(prev.meta).xmin # Bounds(loaded.meta).xmin

\* The grid the claim describes: the cells passed in, plus count lines of
\* the fill value at the requested edge.
ExpectedGrid(data, r) ==
    LET w == IF Len(data) = 0 THEN 0 ELSE Len(data[1])
    IN  IF r.isRows
        THEN IF r.isEnd THEN data \o Repeat(r.numToAdd, Repeat(w, r.fillVal))
                        ELSE Repeat(r.numToAdd, Repeat(w, r.fillVal)) \o data
        ELSE [i \in 1..Len(data) |->
                IF r.isEnd THEN data[i] \o Repeat(r.numToAdd, r.fillVal)
                           ELSE Repeat(r.numToAdd, r.fillVal) \o data[i]]

\* C4: the returned grid is the original cells, values and order unchanged,
\* plus exactly count new lines at the requested edge, every cell of which
\* equals the requested fill value.
C4_NewLinesHoldFillValue ==
    (Returned /\ Last.numToAdd >= 0) => ary.data = ExpectedGrid(prev.ary.data, Last)

\* C5: a call with count = 0 raises nothing and returns the grid and the
\* metadata it was given.
C5_ZeroCountIsNoOp ==
    (Len(hist) > 0 /\ Last.numToAdd = 0) =>
        /\ pc = "call"
        /\ ary = prev.ary
        /\ meta = prev.meta

C5_Witness ==
    /\ pc = "call"
    /\ Len(hist) = 2
    /\ hist[1].numToAdd > 0
    /\ Last.numToAdd = 0
    /\ ~InRange(ary.dtype, Last.fillVal)
    /\ strictCast
    /\ ary = prev.ary
    /\ meta = prev.meta
    /\ meta # loaded.meta

\* The two calls of hist made in the opposite order on the loaded raster.
Swapped ==
    LET first == add_rows_or_cols(loaded.ary, hist[2].isRows, hist[2].numToAdd,
                                  hist[2].isEnd, hist[2].fillVal, loaded.meta, strictCast)
    IN  IF first.raised # "" THEN first
        ELSE add_rows_or_cols(first.ary, hist[1].isRows, hist[1].numToAdd,
                              hist[1].isEnd, hist[1].fillVal, first.meta, strictCast)

RowsThenColumns == Len(hist) = 2 /\ hist[1].isRows /\ ~hist[2].isRows

\* C6 as stated: rows then columns gives the same final grid, cell for
\* cell, and the same bounds and metadata as columns then rows.
C6_AxisOrderSameGrid ==
    (RowsThenColumns /\ pc = "call") =>
        /\ Swapped.raised = ""
        /\ Swapped.ary = ary
        /\ Swapped.meta = meta
        /\ Bounds(Swapped.meta) = Bounds(meta)

\* cell (i, j) of the final grid lies in a new row and in a new column
InNewRow(i) ==
    IF hist[1].isEnd THEN i > Shape0(loaded.ary) ELSE i <= hist[1].numToAdd

InNewColumn(j) ==
    IF hist[2].isEnd THEN j > Shape1(loaded.ary) ELSE j <= hist[2].numToAdd

\* C6 amended: both orders give the same bounds and metadata and the same
\* grid outside the cells that lie in both a new row and a new column; such
\* a cell holds the fill value (as stored in the grid's dtype) of the axis
\* applied last.  One order raises exactly when the other does.
C6_AxisOrderSameExceptCorners ==
    /\ (RowsThenColumns /\ pc = "call") =>
          /\ Swapped.raised = ""
          /\ Swapped.meta = meta
          /\ Bounds(Swapped.meta) = Bounds(meta)
          /\ Swapped.ary.dtype = ary.dtype
          /\ Shape0(Swapped.ary) = Shape0(ary)
          /\ Shape1(Swapped.ary) = Shape1(ary)
          /\ \A i \in 1..Shape0(ary) : \A j \in 1..Shape1(ary) :
                IF InNewRow(i) /\ InNewColumn(j)
                THEN /\ ary.data[i][j] = Wrap(ary.dtype, hist[2].fillVal)
                     /\ Swapped.ary.data[i][j] = Wrap(ary.dtype, hist[1].fillVal)
                ELSE ary.data[i][j] = Swapped.ary.data[i][j]
    /\ (RowsThenColumns /\ pc # "call") => Swapped.raised = pc

C6_Witness ==
    /\ RowsThenColumns
    /\ pc = "call"
    /\ hist[1].numToAdd > 0 /\ hist[2].numToAdd > 0
    /\ hist[1].fillVal # hist[2].fillVal
    /\ Swapped.raised = ""
    /\ Swapped.meta = meta
    /\ Swapped.ary # ary

(***************************************************************************)
(* get_user_input.  A console answer is the line typed, as a sequence of   *)
(* characters; the function reads answers until it has an accepted one     *)
(* for each prompt.  answered is the set of axes whose accepted answer to  *)
(* the first prompt was 'y'.                                               *)
(***************************************************************************)
Keys == {"rows", "columns"}

DigitChars == <<"0", "1", "2", "3", "4", "5", "6", "7", "8", "9">>

IsDigit(c) == \E i \in 1..10 : DigitChars[i] = c

DigitVal(c) == (CHOOSE i \in 1..10 : DigitChars[i] = c) - 1

RECURSIVE Strip(_)
Strip(s) ==
    IF s = <<>> THEN s
    ELSE IF s[1] = " " THEN Strip(Tail(s))
    ELSE IF s[Len(s)] = " " THEN Strip(SubSeq(s, 1, Len(s) - 1))
    ELSE s

RECURSIVE DigitsVal(_)
DigitsVal(s) ==
    IF s = <<>> THEN 0
    ELSE 10 * DigitsVal(SubSeq(s, 1, Len(s) - 1)) + DigitVal(s[Len(s)])

\* int(a) on a typed line: surrounding blanks are dropped, then an optional
\* sign and at least one decimal digit; anything else raises ValueError.
\* The result is [ok, val].
ParseInt(line) ==
    LET t == Strip(line)
        signed == t # <<>> /\ t[1] \in {"-", "+"}
        digits == IF signed THEN Tail(t) ELSE t
        ok == digits # <<>> /\ \A i \in 1..Len(digits) : IsDigit(digits[i])
    IN  IF ~ok THEN [ok |-> FALSE, val |-> 0]
        ELSE [ok |-> TRUE,
              val |-> IF signed /\ t[1] = "-" THEN -DigitsVal(digits) ELSE DigitsVal(digits)]

\* the test that ends the loop of a prompt: "yn" for  v in ['y', 'n'],
\* "int" for  int(a)  not raising
Accepts(kind, line) ==
    IF kind = "yn" THEN line \in {<<"y">>, <<"n">>} ELSE ParseInt(line).ok

\* index of the first answer from position i on that the prompt accepts,
\* 0 when the answers run out first
RECURSIVE FirstAccepted(_, _, _)
FirstAccepted(answers, i, kind) ==
    IF i > Len(answers) THEN 0
    ELSE IF Accepts(kind, answers[i]) THEN i
    ELSE FirstAccepted(answers, i + 1, kind)

\* one pass of "for key in keys"; st = [dimensions, answered, next, raised],
\* next the index of the next unread answer
AskKey(st, key, answers) ==
    LET eof == [st EXCEPT !.raised = "EOFError"]
        iv == FirstAccepted(answers, st.next, "yn")
        ia == FirstAccepted(answers, iv + 1, "int")
        ie == FirstAccepted(answers, ia + 1, "yn")
        if == FirstAccepted(answers, ie + 1, "int")
        entry == [toAdd |-> ParseInt(answers[ia]).val,
                  end |-> (answers[ie] = <<"y">>),
                  fill |-> ParseInt(answers[if]).val]
    IN  IF st.raised # "" THEN st
        ELSE IF iv = 0 THEN eof
        ELSE IF answers[iv] # <<"y">> THEN [st EXCEPT !.next = iv + 1]
        ELSE IF ia = 0 THEN eof
        ELSE IF ie = 0 THEN eof
        ELSE IF if = 0 THEN eof
        ELSE [dimensions |-> [k \in DOMAIN st.dimensions \cup {key} |->
                                IF k = key THEN entry ELSE st.dimensions[k]],
              answered |-> st.answered \cup {key},
              next |-> if + 1,
              raised |-> ""]

\* the whole function on the answers typed: rows first, then columns
Prompts(answers) ==
    AskKey(AskKey([dimensions |-> NoPlan, answered |-> {}, next |-> 1, raised |-> ""],
                  "rows", answers),
           "columns", answers)

\* What a user types for the integer n.
RECURSIVE Digits(_)
Digits(n) ==
    IF n < 10 THEN <<DigitChars[n + 1]>>
    ELSE Digits(n \div 10) \o <<DigitChars[(n % 10) + 1]>>

Typed(n) == IF n < 0 THEN <<"-">> \o Digits(-n) ELSE Digits(n)

\* The answers typed at the console: for each axis 'n', or 'y' followed by
\* a count, an edge and a fill value; and the same with one line that no
\* prompt accepts typed somewhere before the end.
Rejected == {<<>>, <<"Y">>, <<"1", ".", "5">>}

AxisAnswers ==
    {<< <<"n">> >>} \cup
    { << <<"y">>, Typed(n), e, Typed(f) >> :
        n \in -1..MaxCount, e \in {<<"y">>, <<"n">>}, f \in FillVals }

CleanAnswers == { r \o c : r \in AxisAnswers, c \in AxisAnswers }

ConsoleAnswers ==
    CleanAnswers \cup
    UNION { { SubSeq(a, 1, i - 1) \o <<x>> \o SubSeq(a, i, Len(a)) :
                i \in 1..Len(a), x \in Rejected } : a \in CleanAnswers }

\* the dictionaries get_user_input returns
get_user_input ==
    { Prompts(a).dimensions : a \in {b \in ConsoleAnswers : Prompts(b).raised = ""} }

(***************************************************************************)
(* update_extent, one action per statement group; pc is the position.      *)
(***************************************************************************)
Init ==
    /\ pc = "get_user_input"
    /\ dimensions = NoPlan
    /\ ary = NoAry
    /\ meta = NoMeta
    /\ shp = <<0, 0>>
    /\ out = <<>>
    /\ strictCast \in BOOLEAN
    /\ hist = <<>>
    /\ prev = [ary |-> NoAry, meta |-> NoMeta]
    /\ loaded = [ary |-> NoAry, meta |-> NoMeta]
    /\ answered = {}

\* dimensions = get_user_input()
GetUserInput ==
    /\ pc = "get_user_input"
    /\ \E a \in ConsoleAnswers :
         LET r == Prompts(a)
         IN  /\ r.raised = ""
             /\ dimensions' = r.dimensions
             /\ answered' = r.answered
    /\ pc' = "check_plan"
    /\ UNCHANGED <<ary, meta, shp, out, strictCast, hist, prev, loaded>>

EmptyPlanIgnored(d) == FALSE

EmptyPlan(d) == Cardinality(DOMAIN d) = 0

\* if len(dimensions) == 0: print(...); sys.exit()
CheckPlan ==
    /\ pc = "check_plan"
    /\ pc' = IF EmptyPlan(dimensions) THEN "exit_no_plan" ELSE "read_ras"
    /\ UNCHANGED <<answered, dimensions, ary, meta, shp, out, strictCast, hist, prev, loaded>>

\* ary, meta = read_ras(inPath); shp = ary.shape
ReadRas ==
    /\ pc = "read_ras"
    /\ \E r \in read_ras :
         /\ ary' = r.ary
         /\ meta' = r.meta
         /\ loaded' = r
         /\ shp' = <<Shape0(r.ary), Shape1(r.ary)>>
    /\ pc' = "add_rows"
    /\ UNCHANGED <<answered, dimensions, out, strictCast, hist, prev>>

\* if key in dimensions: ary, meta = add_rows_or_cols(ary, isRows, ...)
AddAxis(key, isRows, nextPc) ==
    IF key \in DOMAIN dimensions
    THEN LET d == dimensions[key]
             r == add_rows_or_cols(ary, isRows, d.toAdd, d.end, d.fill, meta, strictCast)
         IN  /\ ary' = r.ary
             /\ meta' = r.meta
             /\ pc' = IF r.raised # "" THEN r.raised ELSE nextPc
             /\ prev' = [ary |-> ary, meta |-> meta]
             /\ hist' = Append(hist, Request(isRows, d.toAdd, d.end, d.fill))
             /\ UNCHANGED <<answered, dimensions, shp, out, strictCast, loaded>>
    ELSE /\ pc' = nextPc
         /\ UNCHANGED <<answered, dimensions, ary, meta, shp, out, strictCast, hist, prev, loaded>>

AddRows == pc = "add_rows" /\ AddAxis("rows", TRUE, "add_columns")

AddColumns == pc = "add_columns" /\ AddAxis("columns", FALSE, "validate_shape")

\* The condition of the shape test, evaluated left to right: a lookup of an
\* axis the plan lacks raises KeyError.
ShapeCheckAnd(a, s, d) ==
    IF "rows" \notin DOMAIN d THEN "KeyError"
    ELSE IF Shape0(a) - s[1] = d["rows"].toAdd THEN "valid"
    ELSE IF "columns" \notin DOMAIN d THEN "KeyError"
    ELSE IF Shape1(a) - s[2] # d["columns"].toAdd THEN "invalid"
    ELSE "valid"

ShapeCheck(a, s, d) ==
    IF "rows" \notin DOMAIN d THEN "KeyError"
    ELSE IF Shape0(a) - s[1] # d["rows"].toAdd THEN "invalid"
    ELSE IF "columns" \notin DOMAIN d THEN "KeyError"
    ELSE IF Shape1(a) - s[2] # d["columns"].toAdd THEN "invalid"
    ELSE "valid"

ValidateShape ==
    /\ pc = "validate_shape"
    /\ pc' = CASE ShapeCheck(ary, shp, dimensions) = "KeyError" -> "KeyError"
               [] ShapeCheck(ary, shp, dimensions) = "invalid" -> "exit_invalid_dimensions"
               [] OTHER -> "validate_dtype"
    /\ UNCHANGED <<answered, dimensions, ary, meta, shp, out, strictCast, hist, prev, loaded>>

\* The dtype block: the type the grid is cast to, "" when meta['dtype']
\* equals ary.dtype, "exit" for a declared dtype without a branch.
CastTargetCopyPaste(a, m) ==
    IF m.dtype = a.dtype THEN ""
    ELSE IF m.dtype = "int8" THEN "int8"
    ELSE IF m.dtype = "int16" THEN "int8"
    ELSE IF m.dtype = "int32" THEN "int32"
    ELSE "exit"

CastTarget(a, m) ==
    IF m.dtype = a.dtype THEN ""
    ELSE IF m.dtype = "int8" THEN "int8"
    ELSE IF m.dtype = "int16" THEN "int16"
    ELSE IF m.dtype = "int32" THEN "int32"
    ELSE "exit"

ValidateDtype ==
    /\ pc = "validate_dtype"
    /\ LET t == CastTarget(ary, meta)
       IN  /\ ary' = IF t \in {"", "exit"} THEN ary ELSE Astype(ary, t)
           /\ pc' = IF t = "exit" THEN "exit_dtype" ELSE "write_ras"
    /\ UNCHANGED <<answered, dimensions, meta, shp, out, strictCast, hist, prev, loaded>>

\* write_ras(outPath, meta, ary)
WriteRas ==
    /\ pc = "write_ras"
    /\ out' = <<[ary |-> ary, meta |-> meta]>>
    /\ pc' = "done"
    /\ UNCHANGED <<answered, dimensions, ary, meta, shp, strictCast, hist, prev, loaded>>

Next ==
    \/ GetUserInput
    \/ CheckPlan
    \/ ReadRas
    \/ AddRows
    \/ AddColumns
    \/ ValidateShape
    \/ ValidateDtype
    \/ WriteRas

Spec == Init /\ [][Next]_vars

(***************************************************************************)
(* Properties of update_extent, checked under Spec.                        *)
(***************************************************************************)
Aborted == {"exit_no_plan", "exit_invalid_dimensions", "exit_dtype",
            "KeyError", "OverflowError", "IndexError", "ZeroDivisionError"}

Terminal == Aborted \cup {"done"}

AfterExpansion == Terminal \cup {"validate_shape", "validate_dtype", "write_ras"}

Delta(key) == IF key = "rows" THEN Shape0(ary) - shp[1] ELSE Shape1(ary) - shp[2]

\* C7: for a plan with exactly one axis, update_extent expands only that
\* axis, leaves the absent axis's pixel count and bounds unchanged, passes
\* the shape validation and reaches write_ras.
C7_SingleAxisPlanIsWritten ==
    (/\ Cardinality(DOMAIN dimensions) = 1
     /\ \A k \in DOMAIN dimensions : dimensions[k].toAdd >= 0
     /\ pc \in Terminal \ {"OverflowError", "exit_dtype"}) =>
        /\ pc = "done"
        /\ out # <<>>
        /\ \A k \in Keys \ DOMAIN dimensions : Delta(k) = 0
        /\ "rows" \notin DOMAIN dimensions =>
              /\ Bounds(meta).ymin = Bounds(loaded.meta).ymin
              /\ Bounds(meta).ymax = Bounds(loaded.meta).ymax
        /\ "columns" \notin DOMAIN dimensions =>
              /\ Bounds(meta).xmin = Bounds(loaded.meta).xmin
              /\ Bounds(meta).xmax = Bounds(loaded.meta).xmax

\* C8: when the realized shape delta of an axis differs from the count
\* requested for it the run aborts and nothing is written; write_ras is
\* reached only when both deltas equal the requested counts.
C8_ShapeMismatchNeverWritten ==
    /\ pc \in {"validate_dtype", "write_ras", "done"} =>
          /\ DOMAIN dimensions = Keys
          /\ \A k \in Keys : Delta(k) = dimensions[k].toAdd
    /\ (pc \in AfterExpansion /\ pc # "exit_no_plan"
          /\ \E k \in DOMAIN dimensions : Delta(k) # dimensions[k].toAdd) =>
          /\ pc \in Aborted \cup {"validate_shape"}
          /\ out = <<>>
    /\ out # <<>> => pc = "done"

C8_Witness ==
    /\ pc = "exit_invalid_dimensions"
    /\ DOMAIN dimensions = Keys
    /\ Delta("rows") = dimensions["rows"].toAdd
    /\ dimensions["rows"].toAdd > 0
    /\ Delta("columns") # dimensions["columns"].toAdd
    /\ out = <<>>

\* C9: whenever write_ras is called the grid's storage type equals
\* meta['dtype']: a differing grid is cast to meta['dtype'] when that is
\* int8, int16 or int32, and for any other declared dtype the run exits
\* without calling write_ras.
C9_WrittenDtypeMatchesMeta ==
    /\ pc \in {"write_ras", "done"} =>
          /\ ary.dtype = meta.dtype
          /\ meta.dtype = loaded.meta.dtype
          /\ loaded.ary.dtype # loaded.meta.dtype =>
                loaded.meta.dtype \in {"int8", "int16", "int32"}
    /\ out # <<>> => out[1].ary.dtype = out[1].meta.dtype
    /\ pc = "exit_dtype" =>
          /\ out = <<>>
          /\ ary.dtype # meta.dtype
          /\ meta.dtype \notin {"int8", "int16", "int32"}

C9_Witness ==
    /\ pc = "done"
    /\ loaded.ary.dtype = "float64"
    /\ loaded.meta.dtype = "int16"
    /\ out # <<>>
    /\ out[1].ary.dtype = "int16"
    /\ out[1].meta.dtype = "int16"

\* C10: with an empty plan update_extent exits before read_ras,
\* add_rows_or_cols or write_ras is called; nothing is written.
C10_EmptyPlanExitsBeforeRead ==
    (Cardinality(DOMAIN dimensions) = 0 /\ pc \notin {"get_user_input", "check_plan"}) =>
        /\ pc = "exit_no_plan"
        /\ ary = NoAry
        /\ loaded.ary = NoAry
        /\ hist = <<>>
        /\ out = <<>>

C10_Witness ==
    /\ pc = "exit_no_plan"
    /\ Cardinality(DOMAIN dimensions) = 0
    /\ ary = NoAry
    /\ out = <<>>

\* C11: every plan returned by get_user_input conforms to the
\* ExpansionRequest data model, whatever is typed: it has an entry only for
\* an axis answered 'y', and in each entry the count is a non-negative
\* integer, the edge a boolean and the fill value an integer.
C11_PlanConformsToDataModel ==
    pc \notin {"get_user_input", "call"} =>
        /\ DOMAIN dimensions \subseteq Keys
        /\ DOMAIN dimensions = answered
        /\ \A k \in DOMAIN dimensions :
              /\ dimensions[k].toAdd \in Nat
              /\ dimensions[k].end \in BOOLEAN
              /\ dimensions[k].fill \in Int

====
